---- MODULE Spec2Model ----
(***************************************************************************)
(* Model of core/input/mouse.js (noVNC): the Mouse object that turns raw   *)
(* mouse, touch and wheel events into button and move callbacks.           *)
(*                                                                         *)
(* One action per event handler, timer callback, public method and         *)
(* property setter.  Each action is the whole handler: it runs to          *)
(* completion in one step, as the single-threaded event loop runs it.      *)
(* Wheel deltas and coordinates are integers.                              *)
(***************************************************************************)
EXTENDS Integers, Sequences, FiniteSets

VARIABLES
    focused,          \* this._focused
    onMouseButton,    \* this._onMouseButton is set (TRUE) or not (FALSE)
    onMouseMove,      \* this._onMouseMove is set or not
    touchButton,      \* this._touchButton
    doubleClickTimer, \* this._doubleClickTimer: Null or a timer id
    lastTouchPos,     \* this._lastTouchPos: NoPos or a position
    wheelPos,         \* this._wheelPos: NoPos or a position
    wheelStepXTimer,  \* this._wheelStepXTimer: "undefined", Null or a timer id
    wheelStepYTimer,  \* this._wheelStepYTimer: "undefined", Null or a timer id
    accX,             \* this._accumulatedWheelDeltaX
    accY,             \* this._accumulatedWheelDeltaY
    timers,           \* the host's pending timeouts: set of [id, cb]
    grabbed,          \* the event listeners of grab() are registered
    isTouchDevice,    \* imported from util/browsers.js
    lastOp,           \* observation: the operation that ran last
    calls,            \* observation: the callbacks that operation invoked, in order
    error,            \* observation: that operation threw
    ev,               \* observation: what a pointer event found (see NoEv)
    seq               \* history of the wheel deltas of one axis (see NewSeq)

vars == <<focused, onMouseButton, onMouseMove, touchButton, doubleClickTimer,
          lastTouchPos, wheelPos, wheelStepXTimer, wheelStepYTimer, accX, accY,
          timers, grabbed, isTouchDevice, lastOp, calls, error, ev, seq>>

mouseState == <<doubleClickTimer, lastTouchPos, wheelPos, wheelStepXTimer,
                wheelStepYTimer, accX, accY, timers>>

config == <<focused, onMouseButton, onMouseMove, touchButton, grabbed, isTouchDevice>>

----------------------------------------------------------------------------
(* Program constants *)

WHEEL_STEP == 10
WHEEL_LINE_HEIGHT == 19
DOUBLE_CLICK_DISTANCE == 20

\* null and undefined, where a field otherwise holds a timer id (>= 1)
Null == 0
Undefined == 0 - 1

\* null, where a field otherwise holds a position
NoPos == [x |-> 0 - 1, y |-> 0 - 1]

(* Bounds of the model *)

\* Timer ids handed out by setTimeout are drawn from 1..MaxTimerId.
MaxTimerId == 4
\* The history of an axis records the sum of its deltas exactly within
\* -SumCap..SumCap.
SumCap == 15

----------------------------------------------------------------------------
(* Helpers *)

Abs(n) == IF n < 0 THEN 0 - n ELSE n

Pos(x, y) == [x |-> x, y |-> y]

\* What a handled pointer event found: the position _getMousePosition
\* resolved for it and, for a touch press, this._lastTouchPos and whether a
\* double-tap expiry timer was pending when the handler started, and the
\* window.devicePixelRatio it read (0 when it read none); and what the event
\* carried: its client coordinates, the rectangle getBoundingClientRect
\* returned for it, its which and its button.
NoBounds == [left |-> 0, top |-> 0, width |-> 0, height |-> 0]

NoEv == [pos |-> NoPos, last |-> NoPos, pending |-> FALSE, ratio |-> 0,
         client |-> NoPos, bounds |-> NoBounds, which |-> 0, button |-> 0]

Seen(e, bounds, pos) ==
    [NoEv EXCEPT !.pos = pos, !.client = [x |-> e.clientX, y |-> e.clientY],
                 !.bounds = bounds, !.which = e.which, !.button = e.button]

\* A call of this._onMouseButton(x, y, down, bmask).
ButtonCall(pos, down, bmask) ==
    [cb |-> "button", x |-> pos.x, y |-> pos.y, down |-> down, mask |-> bmask]

\* A call of this._onMouseMove(x, y).
MoveCall(pos) == [cb |-> "move", x |-> pos.x, y |-> pos.y]

\* 1 << n
Shl1(n) == 2 ^ n

\* n & 2^k, for n >= 0
BitAnd(n, k) == ((n \div (2 ^ k)) % 2) * (2 ^ k)

----------------------------------------------------------------------------
(* Timers of the host: setTimeout / clearTimeout *)

TimerIds == 1..MaxTimerId

\* Ids that setTimeout must not hand out: those of pending timeouts and those
\* still held in a field of the object.  The host never reuses a live id; an
\* id that is neither pending nor held cannot be told from a new one.
UsedIds(ts, held) == { t.id : t \in ts } \cup (held \cap TimerIds)

HasFreshId(ts, held) == TimerIds \ UsedIds(ts, held) # {}

FreshId(ts, held) ==
    CHOOSE i \in TimerIds \ UsedIds(ts, held) :
        \A j \in TimerIds \ UsedIds(ts, held) : i <= j

\* As clearTimeout, where a handle that is null or undefined cancels every
\* pending timeout.
clearTimeoutNullAll(ts, h) ==
    IF h < 1 THEN {} ELSE { t \in ts : t.id # h }

\* clearTimeout(h): cancels the pending timeout with id h; a no-op for null,
\* undefined and for the id of a timeout that has fired or been cancelled.
clearTimeout(ts, h) == { t \in ts : t.id # h }

\* As setTimeout, where the X flush callback is never scheduled.
setTimeoutWheelXLost(ts, i, cb) ==
    IF cb = "wheelX" THEN ts ELSE ts \cup { [id |-> i, cb |-> cb] }

\* setTimeout(cb, delay) returning id i.
setTimeout(ts, i, cb) == ts \cup { [id |-> i, cb |-> cb] }

Pending(cb) == { t \in timers : t.cb = cb }

----------------------------------------------------------------------------
(* _getMousePosition, lines 226-246 *)

\* As ClipAxis, with > for >= in the test of the upper bound.
ClipAxisGt(c, min, max, extent) ==
    IF c < min THEN 0
    ELSE IF c > max THEN extent - 1
    ELSE c - min

ClipAxis(c, min, max, extent) ==
    IF c < min THEN 0
    ELSE IF c >= max THEN extent - 1
    ELSE c - min

getMousePosition(e, bounds) ==
    Pos(ClipAxis(e.clientX, bounds.left, bounds.left + bounds.width, bounds.width),
        ClipAxis(e.clientY, bounds.top, bounds.top + bounds.height, bounds.height))

----------------------------------------------------------------------------
(* Button mask of a press or release, lines 87-97 *)

\* As LegacyMask, without the exchange of the right and middle bits.
LegacyMaskPlain(b) == BitAnd(b, 0) + BitAnd(b, 1) + BitAnd(b, 2)

LegacyMask(b) == BitAnd(b, 0) + BitAnd(b, 1) * 2 + BitAnd(b, 2) \div 2

ButtonMask(e) ==
    IF e.touch THEN touchButton
    ELSE IF e.which # 0 THEN Shl1(e.button)
    ELSE LegacyMask(e.button)

----------------------------------------------------------------------------
(* Touch double tap, lines 64-86 *)

\* d < threshold, with d = sqrt(xs*xs + ys*ys) and
\* threshold = 20 * (window.devicePixelRatio || 1)
DoubleClickThreshold(ratio) ==
    DOUBLE_CLICK_DISTANCE * (IF ratio = 0 THEN 1 ELSE ratio)

\* As IsClose, with d <= threshold.
IsCloseLe(a, b, ratio) ==
    LET xs == a.x - b.x
        ys == a.y - b.y
        th == DoubleClickThreshold(ratio)
    IN  (xs * xs) + (ys * ys) <= th * th

IsClose(a, b, ratio) ==
    LET xs == a.x - b.x
        ys == a.y - b.y
        th == DoubleClickThreshold(ratio)
    IN  (xs * xs) + (ys * ys) < th * th

\* As TouchPressPos, deciding on the recorded position instead of the timer.
TouchPressPosByLast(pos, ratio) ==
    IF lastTouchPos = NoPos THEN pos
    ELSE IF IsClose(lastTouchPos, pos, ratio) THEN lastTouchPos
    ELSE pos

\* The position a touch press reports.
TouchPressPos(pos, ratio) ==
    IF doubleClickTimer = Null THEN pos
    ELSE IF IsClose(lastTouchPos, pos, ratio) THEN lastTouchPos
    ELSE pos

\* this._lastTouchPos after a touch press.
TouchPressLast(pos) ==
    IF doubleClickTimer = Null THEN pos ELSE lastTouchPos

\* As TouchPressCancel, without the clearTimeout of line 68.
TouchPressNoCancel == timers

\* The pending timeouts after a touch press cancelled the old expiry timer.
TouchPressCancel ==
    IF doubleClickTimer = Null THEN timers
    ELSE clearTimeout(timers, doubleClickTimer)

----------------------------------------------------------------------------
(* _generateWheelStepX / _generateWheelStepY, lines 123-147 *)

MaskXNeg == Shl1(5)
MaskXPos == Shl1(6)
MaskYNeg == Shl1(3)
MaskYPos == Shl1(4)

\* As StepCalls, with the release before the press.
StepCallsReleaseFirst(pos, bmask) ==
    << ButtonCall(pos, 0, bmask), ButtonCall(pos, 1, bmask) >>

StepCalls(pos, bmask) == << ButtonCall(pos, 1, bmask), ButtonCall(pos, 0, bmask) >>

\* The effect of a step routine on an accumulated delta acc: the callbacks it
\* invokes, the accumulated delta it leaves, and whether it threw.  Calling
\* this._onMouseButton when it is not set throws before the reset of the
\* accumulated delta.
\* As generateWheelStep, with the masks of the two directions exchanged.
generateWheelStepSwapped(acc, pos, hasCb, maskNeg, maskPos) ==
    IF acc = 0 THEN [calls |-> << >>, acc |-> 0, error |-> FALSE]
    ELSE IF ~hasCb THEN [calls |-> << >>, acc |-> acc, error |-> TRUE]
    ELSE [calls |-> StepCalls(pos, IF acc < 0 THEN maskPos ELSE maskNeg),
          acc |-> 0, error |-> FALSE]

generateWheelStep(acc, pos, hasCb, maskNeg, maskPos) ==
    IF acc = 0 THEN [calls |-> << >>, acc |-> 0, error |-> FALSE]
    ELSE IF ~hasCb THEN [calls |-> << >>, acc |-> acc, error |-> TRUE]
    ELSE [calls |-> StepCalls(pos, IF acc < 0 THEN maskNeg ELSE maskPos),
          acc |-> 0, error |-> FALSE]

\* As generateWheelStepX, without the reset of line 133.
generateWheelStepXNoReset(acc, pos, hasCb) ==
    [generateWheelStep(acc, pos, hasCb, MaskXNeg, MaskXPos) EXCEPT !.acc = acc]

generateWheelStepX(acc, pos, hasCb) ==
    generateWheelStep(acc, pos, hasCb, MaskXNeg, MaskXPos)

\* As generateWheelStepY, with a second step for a delta above twice the
\* threshold.
generateWheelStepYRepeat(acc, pos, hasCb) ==
    LET r == generateWheelStep(acc, pos, hasCb, MaskYNeg, MaskYPos)
    IN  IF Abs(acc) > 2 * WHEEL_STEP THEN [r EXCEPT !.calls = r.calls \o r.calls]
        ELSE r

generateWheelStepY(acc, pos, hasCb) ==
    generateWheelStep(acc, pos, hasCb, MaskYNeg, MaskYPos)

\* _resetWheelStepTimers, lines 149-154: the pending timeouts it leaves.
resetWheelStepTimers(ts) ==
    clearTimeout(clearTimeout(ts, wheelStepXTimer), wheelStepYTimer)

\* As OverStep, with >= for >.
OverStepGe(acc) == Abs(acc) >= WHEEL_STEP

\* Whether _handleMouseWheel emits at once for an accumulated delta, lines 183, 190.
OverStep(acc) == Abs(acc) > WHEEL_STEP

\* As Accumulate, with = for +=.
AccumulateAssign(acc, d) == d

\* Lines 176-177.
Accumulate(acc, d) == acc + d

\* Lines 171-174.
NormDelta(d, deltaMode) == IF deltaMode # 0 THEN d * WHEEL_LINE_HEIGHT ELSE d

----------------------------------------------------------------------------
(* History of the wheel deltas of one axis.                                *)
(*                                                                         *)
(* seq follows one sequence of wheel deltas handled on the axis seq.axis:  *)
(* a sequence starts at a wheel event that finds the accumulated delta of  *)
(* the axis at 0 (any such event may start one) and is closed when the     *)
(* flush timer of the axis fires.  With seq.axis = "none" no axis is        *)
(* followed.  The history does not influence the program.                  *)

NewSeq(axis) ==
    [axis   |-> axis,
     sign   |-> "none",  \* "pos"/"neg": all non-zero deltas had that sign; "mixed"
     sum    |-> 0,       \* sum of the normalised deltas, when ~far
     far    |-> FALSE,   \* the sum left -SumCap..SumCap
     over   |-> FALSE,   \* some running sum was above WHEEL_STEP in absolute value
     hstep  |-> FALSE,   \* a wheel handler emitted a step for the axis
     fstep  |-> FALSE,   \* the flush timer emitted a step for the axis
     closed |-> FALSE]   \* the flush timer of the axis has fired

SignOf(d) == IF d < 0 THEN "neg" ELSE "pos"

SeqAdd(s, d, emitted) ==
    LET far == s.far \/ Abs(s.sum + d) > SumCap
        sum == IF far THEN 0 ELSE s.sum + d
    IN  [s EXCEPT !.sign = IF d = 0 THEN s.sign
                           ELSE IF s.sign = "none" THEN SignOf(d)
                           ELSE IF s.sign = SignOf(d) THEN s.sign
                           ELSE "mixed",
                  !.sum = sum,
                  !.far = far,
                  !.over = s.over \/ far \/ Abs(sum) > WHEEL_STEP,
                  !.hstep = s.hstep \/ emitted]

SeqAcc == IF seq.axis = "X" THEN accX ELSE IF seq.axis = "Y" THEN accY ELSE 0

\* The history after a wheel event that was handled with normalised deltas
\* dX, dY and emitted a step for X (emX) and for Y (emY).
SeqWheel(dX, dY, emX, emY) ==
    LET a  == SeqAcc
        d  == IF seq.axis = "X" THEN dX ELSE dY
        em == IF seq.axis = "X" THEN emX ELSE emY
    IN  \E restart \in (IF seq.axis = "none" THEN {FALSE} ELSE BOOLEAN) :
            /\ restart => a = 0
            /\ (seq.closed /\ a = 0) => restart
            /\ seq' = IF restart THEN SeqAdd(NewSeq(seq.axis), d, em)
                      ELSE IF seq.closed \/ seq.axis = "none" THEN seq
                      ELSE SeqAdd(seq, d, em)

\* The history after the flush timer of axis fired and invoked cs.
SeqFlush(axis, cs) ==
    seq' = IF seq.axis = axis /\ ~seq.closed
           THEN [seq EXCEPT !.closed = TRUE, !.fstep = (cs # << >>)]
           ELSE seq

----------------------------------------------------------------------------
(* Initial state: the constructor, lines 20-44 *)

InitWith(touchDevices, moveCallbacks, axes) ==
    /\ focused = TRUE
    /\ onMouseButton \in BOOLEAN
    /\ onMouseMove \in moveCallbacks
    /\ touchButton = 1
    /\ doubleClickTimer = Null
    /\ lastTouchPos = NoPos
    /\ wheelPos = NoPos
    /\ wheelStepXTimer = Undefined
    /\ wheelStepYTimer = Undefined
    /\ accX = 0
    /\ accY = 0
    /\ timers = {}
    /\ grabbed = FALSE
    /\ isTouchDevice \in touchDevices
    /\ lastOp = "new"
    /\ calls = << >>
    /\ error = FALSE
    /\ ev = NoEv
    /\ seq \in { NewSeq(a) : a \in axes }

----------------------------------------------------------------------------
(* _handleMouseButton, lines 53-105, reached through _handleMouseDown      *)
(* (down = 1) and _handleMouseUp (down = 0).  setCapture and stopEvent act *)
(* on the host's event dispatch and leave the Mouse object alone.          *)

ButtonOp(e, down) ==
    IF e.touch THEN (IF down = 1 THEN "touchstart" ELSE "touchend")
    ELSE (IF down = 1 THEN "mousedown" ELSE "mouseup")

\* The touch branch of a press, lines 64-86.
TouchPress(pos) ==
    LET ts == TouchPressCancel
        held == {wheelStepXTimer, wheelStepYTimer}
    IN  /\ HasFreshId(ts, held)
        /\ lastTouchPos' = TouchPressLast(pos)
        /\ doubleClickTimer' = FreshId(ts, held)
        /\ timers' = setTimeout(ts, FreshId(ts, held), "dbl")

\* Lines 99-103: the callback is invoked when it is set.
ButtonEmit(pos, down, bmask) ==
    IF onMouseButton THEN << ButtonCall(pos, down, bmask) >> ELSE << >>

handleMouseButton(e, down, bounds, ratio) ==
    LET pos0  == getMousePosition(e, bounds)
        press == e.touch /\ down = 1
        pos   == IF press THEN TouchPressPos(pos0, ratio) ELSE pos0
    IN  /\ lastOp' = ButtonOp(e, down)
        /\ error' = FALSE
        /\ UNCHANGED <<config, wheelPos, wheelStepXTimer, wheelStepYTimer,
                       accX, accY, seq>>
        /\ IF ~focused
           THEN /\ calls' = << >>
                /\ ev' = NoEv
                /\ UNCHANGED <<doubleClickTimer, lastTouchPos, timers>>
           ELSE /\ IF press THEN TouchPress(pos0)
                   ELSE UNCHANGED <<doubleClickTimer, lastTouchPos, timers>>
                /\ calls' = ButtonEmit(pos, down, ButtonMask(e))
                /\ ev' = IF press
                         THEN [Seen(e, bounds, pos0) EXCEPT
                                   !.last = lastTouchPos,
                                   !.pending = Pending("dbl") # {},
                                   !.ratio = IF doubleClickTimer = Null THEN 0 ELSE ratio]
                         ELSE Seen(e, bounds, pos0)

(* _resetDoubleClickTimer, lines 49-51: the expiry timer fires *)

\* Line 50.
ExpiredDoubleClickTimer == Null

resetDoubleClickTimer ==
    \E t \in Pending("dbl") :
        /\ timers' = timers \ {t}
        /\ doubleClickTimer' = ExpiredDoubleClickTimer
        /\ lastOp' = "dblTimer"
        /\ calls' = << >>
        /\ error' = FALSE
        /\ ev' = NoEv
        /\ UNCHANGED <<config, lastTouchPos, wheelPos, wheelStepXTimer,
                       wheelStepYTimer, accX, accY, seq>>

----------------------------------------------------------------------------
(* _handleMouseMove, lines 201-209 *)

handleMouseMove(e, bounds) ==
    LET pos == getMousePosition(e, bounds)
    IN  /\ lastOp' = IF e.touch THEN "touchmove" ELSE "mousemove"
        /\ error' = FALSE
        /\ calls' = IF focused /\ onMouseMove THEN << MoveCall(pos) >> ELSE << >>
        /\ ev' = IF focused THEN Seen(e, bounds, pos) ELSE NoEv
        /\ UNCHANGED <<config, mouseState, seq>>

----------------------------------------------------------------------------
(* _handleMouseWheel, lines 156-199 *)

\* As WheelEnabled, without the test of this._focused.
WheelEnabledNoFocus == onMouseButton

\* Line 157: the handler runs only when focused and with a button callback.
WheelEnabled == focused /\ onMouseButton

handleMouseWheel(e, bounds) ==
    /\ lastOp' = "wheel"
    /\ error' = FALSE
    /\ ev' = NoEv
    /\ UNCHANGED <<config, doubleClickTimer, lastTouchPos>>
    /\ IF ~WheelEnabled
       THEN /\ calls' = << >>
            /\ UNCHANGED <<wheelPos, wheelStepXTimer, wheelStepYTimer, accX, accY,
                           timers, seq>>
       ELSE LET ts0   == resetWheelStepTimers(timers)
                pos   == getMousePosition(e, bounds)
                dX    == NormDelta(e.deltaX, e.deltaMode)
                dY    == NormDelta(e.deltaY, e.deltaMode)
                aX    == Accumulate(accX, dX)
                aY    == Accumulate(accY, dY)
                rX    == generateWheelStepX(aX, pos, onMouseButton)
                rY    == generateWheelStepY(aY, pos, onMouseButton)
                held  == {doubleClickTimer}
                idX   == FreshId(ts0, held)
                hX    == IF OverStep(aX) THEN Null ELSE idX
                ts1   == IF OverStep(aX) THEN ts0 ELSE setTimeout(ts0, idX, "wheelX")
                idY   == FreshId(ts1, held \cup {hX})
                hY    == IF OverStep(aY) THEN Null ELSE idY
                ts2   == IF OverStep(aY) THEN ts1 ELSE setTimeout(ts1, idY, "wheelY")
            IN  /\ ~OverStep(aX) => HasFreshId(ts0, held)
                /\ ~OverStep(aY) => HasFreshId(ts1, held \cup {hX})
                /\ wheelPos' = pos
                /\ accX' = IF OverStep(aX) THEN rX.acc ELSE aX
                /\ accY' = IF OverStep(aY) THEN rY.acc ELSE aY
                /\ wheelStepXTimer' = hX
                /\ wheelStepYTimer' = hY
                /\ timers' = ts2
                /\ calls' = (IF OverStep(aX) THEN rX.calls ELSE << >>)
                            \o (IF OverStep(aY) THEN rY.calls ELSE << >>)
                /\ SeqWheel(dX, dY, OverStep(aX), OverStep(aY))

(* The flush timers fire: _generateWheelStepX / _generateWheelStepY run as  *)
(* timeout callbacks (lines 186-188, 193-195).  Both timers are armed by    *)
(* the same handler with the same delay, X first, so X fires first.         *)

wheelStepXTimeout ==
    \E t \in Pending("wheelX") :
        LET r == generateWheelStepX(accX, wheelPos, onMouseButton)
        IN  /\ timers' = timers \ {t}
            /\ accX' = r.acc
            /\ calls' = r.calls
            /\ error' = r.error
            /\ lastOp' = "wheelXTimer"
            /\ ev' = NoEv
            /\ SeqFlush("X", r.calls)
            /\ UNCHANGED <<config, doubleClickTimer, lastTouchPos, wheelPos,
                           wheelStepXTimer, wheelStepYTimer, accY>>

wheelStepYTimeout ==
    \E t \in Pending("wheelY") :
        LET r == generateWheelStepY(accY, wheelPos, onMouseButton)
        IN  /\ Pending("wheelX") = {}
            /\ timers' = timers \ {t}
            /\ accY' = r.acc
            /\ calls' = r.calls
            /\ error' = r.error
            /\ lastOp' = "wheelYTimer"
            /\ ev' = NoEv
            /\ SeqFlush("Y", r.calls)
            /\ UNCHANGED <<config, doubleClickTimer, lastTouchPos, wheelPos,
                           wheelStepXTimer, wheelStepYTimer, accX>>

----------------------------------------------------------------------------
(* grab, lines 249-268, and ungrab, lines 270-288 *)

grab ==
    /\ grabbed' = TRUE
    /\ lastOp' = "grab"
    /\ calls' = << >>
    /\ error' = FALSE
    /\ ev' = NoEv
    /\ UNCHANGED <<focused, onMouseButton, onMouseMove, touchButton, isTouchDevice,
                   mouseState, seq>>

\* As ungrabTimers, without the call of line 273.
ungrabTimersKept == timers

\* The pending timeouts ungrab leaves.
ungrabTimers == resetWheelStepTimers(timers)

\* As ungrabAccumulated, zeroing the accumulated delta.
ungrabAccumulatedZero(acc) == 0

\* The accumulated delta ungrab leaves: it assigns neither of them.
ungrabAccumulated(acc) == acc

ungrab ==
    /\ timers' = ungrabTimers
    /\ accX' = ungrabAccumulated(accX)
    /\ accY' = ungrabAccumulated(accY)
    /\ wheelStepXTimer' = Null
    /\ wheelStepYTimer' = Null
    /\ grabbed' = FALSE
    /\ lastOp' = "ungrab"
    /\ calls' = << >>
    /\ error' = FALSE
    /\ ev' = NoEv
    /\ UNCHANGED <<focused, onMouseButton, onMouseMove, touchButton, isTouchDevice,
                   doubleClickTimer, lastTouchPos, wheelPos, seq>>

----------------------------------------------------------------------------
(* The read-write properties, lines 291-298 *)

set_focused(v) ==
    /\ focused' = v
    /\ lastOp' = "set_focused"
    /\ calls' = << >>
    /\ error' = FALSE
    /\ ev' = NoEv
    /\ UNCHANGED <<onMouseButton, onMouseMove, touchButton, grabbed, isTouchDevice,
                   mouseState, seq>>

set_onMouseButton(v) ==
    /\ onMouseButton' = v
    /\ lastOp' = "set_onMouseButton"
    /\ calls' = << >>
    /\ error' = FALSE
    /\ ev' = NoEv
    /\ UNCHANGED <<focused, onMouseMove, touchButton, grabbed, isTouchDevice,
                   mouseState, seq>>

set_onMouseMove(v) ==
    /\ onMouseMove' = v
    /\ lastOp' = "set_onMouseMove"
    /\ calls' = << >>
    /\ error' = FALSE
    /\ ev' = NoEv
    /\ UNCHANGED <<focused, onMouseButton, touchButton, grabbed, isTouchDevice,
                   mouseState, seq>>

set_touchButton(v) ==
    /\ touchButton' = v
    /\ lastOp' = "set_touchButton"
    /\ calls' = << >>
    /\ error' = FALSE
    /\ ev' = NoEv
    /\ UNCHANGED <<focused, onMouseButton, onMouseMove, grabbed, isTouchDevice,
                   mouseState, seq>>

----------------------------------------------------------------------------
(* Events the host delivers to the registered listeners *)

\* A mouse event carries which and button; a touch event carries touches.
MouseEvents(XS, YS, WS, BS) ==
    [touch : {FALSE}, which : WS, button : BS, clientX : XS, clientY : YS]

TouchEvents(XS, YS) ==
    [touch : {TRUE}, which : {0}, button : {0}, clientX : XS, clientY : YS]

WheelEvents(DXS, DYS, MS, XS, YS) ==
    [deltaX : DXS, deltaY : DYS, deltaMode : MS, clientX : XS, clientY : YS]

\* Touch listeners are registered on touch devices only (lines 252-256).
Delivered(e) == grabbed /\ (e.touch => isTouchDevice)

MouseDown(ES, RS, PRS) ==
    \E e \in ES, b \in RS, r \in PRS : Delivered(e) /\ handleMouseButton(e, 1, b, r)

MouseUp(ES, RS, PRS) ==
    \E e \in ES, b \in RS, r \in PRS : Delivered(e) /\ handleMouseButton(e, 0, b, r)

MouseMove(ES, RS) ==
    \E e \in ES, b \in RS : Delivered(e) /\ handleMouseMove(e, b)

MouseWheel(WS, RS) ==
    \E e \in WS, b \in RS : grabbed /\ handleMouseWheel(e, b)

Configure ==
    \/ \E v \in BOOLEAN : set_focused(v)
    \/ \E v \in BOOLEAN : set_onMouseButton(v)
    \/ \E v \in BOOLEAN : set_onMouseMove(v)
    \/ \E v \in {0, 1} : set_touchButton(v)

Timeout ==
    \/ resetDoubleClickTimer
    \/ wheelStepXTimeout
    \/ wheelStepYTimeout

----------------------------------------------------------------------------
(* Spec: every operation, with few positions and few wheel deltas *)

Bounds0 == [left |-> 0, top |-> 0, width |-> 200, height |-> 200]

PointerEvents == MouseEvents({100}, {100}, {0, 1}, {0, 1})
                 \cup TouchEvents({100, 130}, {100})

Wheels == WheelEvents({0, 5, 15}, {0 - 15, 0 - 5, 0}, {0}, {100}, {100})

Init == InitWith(BOOLEAN, BOOLEAN, {"none"})

Next ==
    \/ MouseDown(PointerEvents, {Bounds0}, {1})
    \/ MouseUp(PointerEvents, {Bounds0}, {1})
    \/ MouseMove(PointerEvents, {Bounds0})
    \/ MouseWheel(Wheels, {Bounds0})
    \/ Timeout
    \/ grab
    \/ ungrab
    \/ Configure

Spec == Init /\ [][Next]_vars

----------------------------------------------------------------------------
(* SpecWheel: the wheel accumulator with the deltas of the wheel cases *)

DeltaXs == {0 - 15, 0 - 5, 0, 3, 4, 5, 10, 15}
DeltaYs == {0 - 15, 0 - 5, 0, 5, 10, 15, 35}

\* Events with a delta on one axis, and some with a delta on both.
WheelsW ==
    { e \in WheelEvents(DeltaXs, DeltaYs, {0, 1}, {100}, {100}) :
        \/ e.deltaX = 0
        \/ e.deltaY = 0
        \/ e.deltaX \in {0 - 15, 3, 15} /\ e.deltaY \in {0 - 15, 5, 35} }

InitWheel == InitWith({FALSE}, {FALSE}, {"none"})

NextWheel ==
    \/ MouseWheel(WheelsW, {Bounds0})
    \/ wheelStepXTimeout
    \/ wheelStepYTimeout
    \/ grab
    \/ ungrab
    \/ \E v \in BOOLEAN : set_focused(v)
    \/ \E v \in BOOLEAN : set_onMouseButton(v)

SpecWheel == InitWheel /\ [][NextWheel]_vars

----------------------------------------------------------------------------
(* SpecSeq: sequences of wheel deltas on one axis, with their history *)

DeltaSs == {0 - 15, 0 - 5, 0, 5, 10, 15}

WheelsS == WheelEvents(DeltaSs, DeltaSs, {0}, {100}, {100})

InitSeq == InitWith({FALSE}, {FALSE}, {"X", "Y"})

NextSeq ==
    \/ MouseWheel(WheelsS, {Bounds0})
    \/ wheelStepXTimeout
    \/ wheelStepYTimeout
    \/ grab
    \/ ungrab
    \/ \E v \in BOOLEAN : set_focused(v)
    \/ \E v \in BOOLEAN : set_onMouseButton(v)

SpecSeq == InitSeq /\ [][NextSeq]_vars

----------------------------------------------------------------------------
(* SpecTouch: touch presses and releases over the positions of the double  *)
(* tap cases, two target rectangles and three pixel ratios                 *)

Bounds1 == [left |-> 101, top |-> 90, width |-> 20, height |-> 20]

TouchesT == TouchEvents({100, 105, 112, 120, 124}, {100, 102, 116, 132})

PixelRatios == {0, 1, 2}

InitTouch == InitWith({TRUE}, {FALSE}, {"none"})

NextTouch ==
    \/ MouseDown(TouchesT, {Bounds0, Bounds1}, PixelRatios)
    \/ MouseUp(TouchesT, {Bounds0, Bounds1}, PixelRatios)
    \/ resetDoubleClickTimer
    \/ grab
    \/ ungrab
    \/ \E v \in BOOLEAN : set_focused(v)
    \/ \E v \in BOOLEAN : set_onMouseButton(v)

SpecTouch == InitTouch /\ [][NextTouch]_vars

----------------------------------------------------------------------------
(* Properties *)

PendingIn(ts, cb) == { t \in ts : t.cb = cb }

\* The button callbacks of cs whose mask is in masks, in order.
AxisCalls(cs, masks) == SelectSeq(cs, LAMBDA c : c.cb = "button" /\ c.mask \in masks)

\* One press followed by one release at pos with mask m.
PressRelease(pos, m) ==
    << [cb |-> "button", x |-> pos.x, y |-> pos.y, down |-> 1, mask |-> m],
       [cb |-> "button", x |-> pos.x, y |-> pos.y, down |-> 0, mask |-> m] >>

\* The normalised delta: raw delta times 19 when deltaMode is not 0.
Normalised(d, deltaMode) == IF deltaMode = 0 THEN d ELSE d * 19

\* A wheel event e is handled while focused with a button callback set.
WheelHandled(e) == grabbed /\ focused /\ onMouseButton /\ handleMouseWheel(e, Bounds0)

C1_AxisPost(acc, d, mode, accAfter, maskNeg, maskPos) ==
    LET a == acc + Normalised(d, mode)
    IN  (a > 10 \/ a < 0 - 10) =>
            /\ AxisCalls(calls', {maskNeg, maskPos}) =
                   PressRelease(wheelPos', IF a < 0 THEN maskNeg ELSE maskPos)
            /\ accAfter = 0

\* C1: a wheel event handled while focused with a button callback set, whose
\* normalised delta brings the accumulated delta of an axis strictly above 10
\* in absolute value, emits in that handler one press then one release with
\* the mask of the sign (Y: 8 / 16, X: 32 / 64) and leaves the accumulated
\* delta of the axis at 0.
C1_OverThresholdEmitsInHandler ==
    [][\A e \in WheelsW :
          WheelHandled(e) =>
              /\ C1_AxisPost(accX, e.deltaX, e.deltaMode, accX', 32, 64)
              /\ C1_AxisPost(accY, e.deltaY, e.deltaMode, accY', 8, 16)]_vars

\* A wheel handler has just emitted the Y positive step alone.
C1_Witness ==
    /\ lastOp = "wheel"
    /\ focused /\ onMouseButton
    /\ calls = PressRelease(wheelPos, 16)
    /\ accY = 0

C2_HandlerPost(acc, d, mode, accAfter, masks, cb) ==
    LET a == acc + Normalised(d, mode)
    IN  (a # 0 /\ a <= 10 /\ a >= 0 - 10) =>
            /\ AxisCalls(calls', masks) = << >>
            /\ accAfter = a
            /\ Cardinality(PendingIn(timers', cb)) = 1

C2_FlushPost(acc, accAfter, maskNeg, maskPos, cb) ==
    (onMouseButton /\ acc # 0) =>
        /\ calls' = PressRelease(wheelPos, IF acc < 0 THEN maskNeg ELSE maskPos)
        /\ accAfter = 0
        /\ PendingIn(timers', cb) = {}

\* C2: a wheel event that leaves the accumulated delta of an axis non-zero
\* and not above 10 emits nothing for that axis and leaves one flush timer
\* pending; when the flush timer fires (button callback set) it emits
\* exactly one press+release pair with the mask of the accumulated sign,
\* resets the accumulated delta to 0 and is no longer pending.
C2_BelowThresholdFlushedOnce ==
    [][/\ \A e \in WheelsW :
              WheelHandled(e) =>
                  /\ C2_HandlerPost(accX, e.deltaX, e.deltaMode, accX', {32, 64}, "wheelX")
                  /\ C2_HandlerPost(accY, e.deltaY, e.deltaMode, accY', {8, 16}, "wheelY")
       /\ wheelStepXTimeout => C2_FlushPost(accX, accX', 32, 64, "wheelX")
       /\ wheelStepYTimeout => C2_FlushPost(accY, accY', 8, 16, "wheelY")]_vars

\* The X flush timer has just emitted the X positive step.
C2_Witness ==
    /\ lastOp = "wheelXTimer"
    /\ calls = PressRelease(wheelPos, 64)
    /\ accX = 0
    /\ PendingIn(timers, "wheelX") = {}

SameSign == seq.sign \in {"pos", "neg"}

\* C3 as stated: when a sequence of same-sign deltas summing to exactly 10
\* is closed by the flush timer, a wheel handler has emitted a step before.
C3_Original ==
    (SameSign /\ ~seq.far /\ Abs(seq.sum) = 10 /\ seq.closed) => seq.hstep

\* C3 amended: in a sequence of same-sign deltas starting from accumulated
\* delta 0, a wheel handler has emitted a step iff the sum is strictly greater
\* than 10 in absolute value; up to and including exactly 10 no handler
\* emits, the accumulated delta is the sum, and the step is left to the
\* flush timer.
C3_HandlerEmitsOnlyAboveThreshold ==
    (SameSign /\ ~seq.far) =>
        /\ seq.hstep <=> (seq.sum > 10 \/ seq.sum < 0 - 10)
        /\ (~seq.hstep /\ ~seq.closed) => SeqAcc = seq.sum

\* +5 then +5, or +10: the flush timer emitted the step, no handler did.
C3_Witness ==
    /\ seq.sign = "pos" /\ seq.sum = 10 /\ ~seq.far
    /\ seq.closed /\ seq.fstep /\ ~seq.hstep

\* C4 as stated: a sequence of deltas summing to zero emits no step, by a
\* handler or by the flush timer, and the flush timer leaves 0.
C4_Original ==
    (seq.sign # "none" /\ ~seq.far /\ seq.sum = 0) =>
        /\ ~seq.hstep
        /\ ~seq.fstep
        /\ seq.closed => SeqAcc = 0

\* C4 amended: a sequence of deltas starting from accumulated delta 0, whose
\* running sums never exceed 10 in absolute value and whose sum is zero,
\* emits no step, by a handler or by the flush timer, and the accumulated
\* delta is 0, also after the flush timer fired.
C4_ZeroSumBelowThresholdEmitsNothing ==
    (seq.sign # "none" /\ ~seq.over /\ seq.sum = 0) =>
        /\ ~seq.hstep
        /\ ~seq.fstep
        /\ SeqAcc = 0

\* +5 then -5, then the flush timer fired and emitted nothing.
C4_Witness ==
    /\ seq.sign = "mixed" /\ ~seq.over /\ seq.sum = 0
    /\ seq.closed /\ ~seq.fstep /\ ~seq.hstep
    /\ lastOp \in {"wheelXTimer", "wheelYTimer"}

\* The position a touch press is expected to report when it found a pending
\* expiry timer: the recorded one iff the squared distance is below the
\* square of 20 times the pixel-density scale.
C5_Near ==
    LET xs == ev.last.x - ev.pos.x
        ys == ev.last.y - ev.pos.y
        th == 20 * (IF ev.ratio = 0 THEN 1 ELSE ev.ratio)
    IN  (xs * xs) + (ys * ys) < th * th

\* C5: a touch press that arrives while the expiry timer of a previous touch
\* press is pending reports the recorded last touch position iff the new
\* resolved position is strictly nearer than 20 times the pixel-density
\* scale, and otherwise its own resolved position.
C5_SnapIffWithinThreshold ==
    (lastOp = "touchstart" /\ ev.pending /\ onMouseButton) =>
        /\ Len(calls) = 1
        /\ calls[1].cb = "button" /\ calls[1].down = 1
        /\ Pos(calls[1].x, calls[1].y) = (IF C5_Near THEN ev.last ELSE ev.pos)
        /\ (Pos(calls[1].x, calls[1].y) = ev.last) <=> C5_Near

\* (100,100) then (105,102) within the window: (100,100) is reported.
C5_Witness ==
    /\ lastOp = "touchstart" /\ ev.pending /\ onMouseButton
    /\ ev.last = Pos(100, 100)
    /\ ev.pos = Pos(105, 102)
    /\ ev.ratio = 1
    /\ calls = << [cb |-> "button", x |-> 100, y |-> 100, down |-> 1, mask |-> 1] >>

\* C6: a touch press that arrives after the expiry timer of the previous
\* press fired is not snapped: it reports its own resolved position, records
\* it as the last touch position and arms a new expiry timer.
C6_PressAfterExpiryStartsFresh ==
    (lastOp = "touchstart" /\ ev.pos # NoPos /\ ev.last # NoPos /\ ~ev.pending) =>
        /\ onMouseButton =>
               calls = << [cb |-> "button", x |-> ev.pos.x, y |-> ev.pos.y,
                           down |-> 1, mask |-> touchButton] >>
        /\ lastTouchPos = ev.pos
        /\ PendingIn(timers, "dbl") = { [id |-> doubleClickTimer, cb |-> "dbl"] }

\* (100,100), expiry, then (105,102): (105,102) is reported and recorded.
C6_Witness ==
    /\ lastOp = "touchstart" /\ ~ev.pending /\ onMouseButton
    /\ ev.last = Pos(100, 100)
    /\ ev.pos = Pos(105, 102)
    /\ lastTouchPos = Pos(105, 102)
    /\ calls = << [cb |-> "button", x |-> 105, y |-> 102, down |-> 1, mask |-> 1] >>
    /\ PendingIn(timers, "dbl") # {}

RawOps == {"mousedown", "mouseup", "touchstart", "touchend",
           "mousemove", "touchmove", "wheel"}

\* C7: while focused is false, a raw event (press, release, move, wheel)
\* leaves the last touch position, the double-tap timer, the wheel position,
\* both accumulated deltas, both flush timers and the pending timeouts
\* unchanged and invokes no callback.
C7_UnfocusedEventsIgnored ==
    [][(~focused /\ lastOp' \in RawOps) =>
           /\ UNCHANGED mouseState
           /\ calls' = << >>]_vars

\* A wheel event was ignored while a flush was pending.
C7_Witness ==
    /\ ~focused /\ onMouseButton /\ grabbed
    /\ lastOp = "wheel"
    /\ calls = << >>
    /\ accX # 0
    /\ PendingIn(timers, "wheelX") # {}

C9_TouchButtonZeroNoCallback ==
    (lastOp \in {"touchstart", "touchend"} /\ focused /\ touchButton = 0) =>
        calls = << >>

TimerHandle(cb) ==
    IF cb = "dbl" THEN doubleClickTimer
    ELSE IF cb = "wheelX" THEN wheelStepXTimer
    ELSE wheelStepYTimer

\* C10: at most one timer is pending for each unit (double tap, wheel X,
\* wheel Y), and a pending timer is the one its unit holds: a timer that was
\* cancelled or replaced is not pending and so does not fire.
C10_OnePendingTimerPerUnit ==
    /\ \A cb \in {"dbl", "wheelX", "wheelY"} : Cardinality(PendingIn(timers, cb)) <= 1
    /\ \A t \in timers : t.id = TimerHandle(t.cb)

\* A touch press replaced a pending expiry timer while both flush timers
\* were pending.
C10_Witness ==
    /\ lastOp = "touchstart" /\ ev.pending
    /\ Cardinality(PendingIn(timers, "dbl")) = 1
    /\ PendingIn(timers, "wheelX") # {}
    /\ PendingIn(timers, "wheelY") # {}

\* C11: with the button callback or the move callback not set, no operation
\* fails: every handler and every timer firing completes without error.
C11_NoOperationFails ==
    (~onMouseButton \/ ~onMouseMove) => ~error

----------------------------------------------------------------------------
(* SpecPos: mouse presses, releases and moves over client coordinates      *)
(* below, inside and above several target rectangles                       *)

\* Client x coordinates are drawn from -1..MaxCoord.
MaxCoord == 5

RectsP ==
    { [left |-> l, top |-> 1, width |-> w, height |-> h] :
          l \in {0, 2}, w \in {1, 3}, h \in {1, 4} }

MouseP == MouseEvents((0 - 1)..MaxCoord, {0, 2, 5}, {1}, {0})

InitPos == InitWith({FALSE}, BOOLEAN, {"none"})

NextPos ==
    \/ MouseDown(MouseP, RectsP, {1})
    \/ MouseUp(MouseP, RectsP, {1})
    \/ MouseMove(MouseP, RectsP)
    \/ grab
    \/ ungrab
    \/ \E v \in BOOLEAN : set_focused(v)
    \/ \E v \in BOOLEAN : set_onMouseButton(v)
    \/ \E v \in BOOLEAN : set_onMouseMove(v)

SpecPos == InitPos /\ [][NextPos]_vars

\* The resolved coordinate of one axis as the claim states it.
C12_Axis(c, min, extent) ==
    IF c < min THEN 0
    ELSE IF c >= min + extent THEN extent - 1
    ELSE c - min

\* C12: for every client coordinate and every rectangle with extent >= 1,
\* the resolved position is, per axis, 0 below min, extent - 1 at or above
\* max = min + extent, and coordinate - min otherwise; the position passed
\* to the button and move callbacks is that position and lies within
\* [0, width-1] x [0, height-1].
C12_PositionClamped ==
    (ev.pos # NoPos /\ lastOp \in {"mousedown", "mouseup", "mousemove"}) =>
        /\ ev.pos.x = C12_Axis(ev.client.x, ev.bounds.left, ev.bounds.width)
        /\ ev.pos.y = C12_Axis(ev.client.y, ev.bounds.top, ev.bounds.height)
        /\ \A i \in 1..Len(calls) :
               /\ calls[i].x = ev.pos.x /\ calls[i].y = ev.pos.y
               /\ calls[i].x \in 0..(ev.bounds.width - 1)
               /\ calls[i].y \in 0..(ev.bounds.height - 1)

\* A move left of and below a 3 x 4 rectangle at (2, 1): x is clamped to 0,
\* y to 3.
C12_Witness ==
    /\ lastOp = "mousemove"
    /\ ev.client = Pos(0, 5)
    /\ ev.bounds = [left |-> 2, top |-> 1, width |-> 3, height |-> 4]
    /\ calls = << [cb |-> "move", x |-> 0, y |-> 3] >>

----------------------------------------------------------------------------
(* SpecButton: mouse presses and releases over every which and button *)

MouseB == MouseEvents({100}, {100}, {0, 1, 2, 3}, 0..7)

InitButton == InitWith({FALSE}, {FALSE}, {"none"})

NextButton ==
    \/ MouseDown(MouseB, {Bounds0}, {1})
    \/ MouseUp(MouseB, {Bounds0}, {1})
    \/ grab
    \/ ungrab
    \/ \E v \in BOOLEAN : set_focused(v)
    \/ \E v \in BOOLEAN : set_onMouseButton(v)

SpecButton == InitButton /\ [][NextButton]_vars

\* Bit k of b, as 0 or 1.
C13_Bit(b, k) == (b \div (2 ^ k)) % 2

\* C13: a non-touch press or release passes the mask 1 << button when which
\* is truthy; otherwise, for a legacy bitfield b in 0..7, the mask whose bit
\* 0 is bit 0 of b, bit 1 is bit 2 of b and bit 2 is bit 1 of b.
C13_ButtonMaskEncoding ==
    (lastOp \in {"mousedown", "mouseup"} /\ ev.pos # NoPos /\ onMouseButton) =>
        /\ Len(calls) = 1
        /\ calls[1].cb = "button"
        /\ calls[1].down = (IF lastOp = "mousedown" THEN 1 ELSE 0)
        /\ calls[1].mask =
               IF ev.which # 0 THEN 2 ^ ev.button
               ELSE C13_Bit(ev.button, 0) + 2 * C13_Bit(ev.button, 2)
                        + 4 * C13_Bit(ev.button, 1)

\* A legacy press of the right button (bitfield 2) passes mask 4.
C13_Witness ==
    /\ lastOp = "mousedown"
    /\ ev.which = 0 /\ ev.button = 2
    /\ calls = << [cb |-> "button", x |-> 100, y |-> 100, down |-> 1, mask |-> 4] >>

\* C14: a second ungrab() right after an ungrab() does not fail, cancels no
\* timer and leaves the whole state as the first one left it.
C14_UngrabIdempotent ==
    [][(lastOp = "ungrab" /\ lastOp' = "ungrab") =>
           /\ UNCHANGED <<mouseState, config>>
           /\ ~error']_vars

\* After an ungrab() with the expiry timer still pending and a delta still
\* accumulated: the state a second ungrab() starts from.
C14_Witness ==
    /\ lastOp = "ungrab" /\ ~grabbed
    /\ wheelStepXTimer = Null /\ wheelStepYTimer = Null
    /\ PendingIn(timers, "dbl") # {}
    /\ accY # 0

\* C15 as stated: after ungrab() both accumulated wheel deltas are 0.
C15_Original == (lastOp = "ungrab") => (accX = 0 /\ accY = 0)

\* C15 amended: ungrab() cancels both flush timers and nulls their handles
\* but leaves both accumulated wheel deltas as they were.
C15_UngrabKeepsAccumulatedDeltas ==
    [][(lastOp' = "ungrab") =>
           /\ accX' = accX /\ accY' = accY
           /\ wheelStepXTimer' = Null /\ wheelStepYTimer' = Null
           /\ PendingIn(timers', "wheelX") \cup PendingIn(timers', "wheelY") = {}]_vars

\* After ungrab(): both deltas still accumulated, no flush timer pending.
C15_Witness ==
    /\ lastOp = "ungrab"
    /\ accX # 0 /\ accY # 0
    /\ PendingIn(timers, "wheelX") = {} /\ PendingIn(timers, "wheelY") = {}

\* C16: after a touch press handled while the expiry timer was pending, the
\* recorded last touch position is the position reported for that press.
C16_LastTouchIsReportedPosition ==
    (lastOp = "touchstart" /\ ev.pending /\ onMouseButton) =>
        /\ Len(calls) = 1
        /\ lastTouchPos = Pos(calls[1].x, calls[1].y)

WheelMasks == {8, 16, 32, 64}

IsWheelCall(c) == c.cb = "button" /\ c.mask \in WheelMasks

C18_AxisPost(acc, d, mode, accAfter, masks) ==
    LET a    == acc + Normalised(d, mode)
        over == a > 10 \/ a < 0 - 10
    IN  /\ Len(AxisCalls(calls', masks)) = (IF over THEN 2 ELSE 0)
        /\ accAfter = (IF over THEN 0 ELSE a)

\* C18: a handled wheel event emits, for each axis, exactly one step when
\* the accumulated delta goes above the threshold, whatever its magnitude,
\* and none otherwise; the excess is discarded; what an axis emits and keeps
\* depends on that axis alone, and one event can emit a step on both.
C18_AtMostOneStepPerAxis ==
    [][\A e \in WheelsW :
          WheelHandled(e) =>
              /\ C18_AxisPost(accX, e.deltaX, e.deltaMode, accX', {32, 64})
              /\ C18_AxisPost(accY, e.deltaY, e.deltaMode, accY', {8, 16})
              /\ Len(calls') = Len(AxisCalls(calls', {32, 64}))
                                   + Len(AxisCalls(calls', {8, 16}))]_vars

\* One wheel event emitted one X step and one Y step and left both at 0.
C18_Witness ==
    /\ lastOp = "wheel"
    /\ calls = PressRelease(wheelPos, 64) \o PressRelease(wheelPos, 16)
    /\ accX = 0 /\ accY = 0

\* Each axis with a non-zero accumulated delta has its flush timer pending.
FlushArmed(aX, aY, ts) ==
    /\ aX # 0 => PendingIn(ts, "wheelX") # {}
    /\ aY # 0 => PendingIn(ts, "wheelY") # {}

C20_NoCallbackWhileUnfocused == ~focused => calls = << >>

====
